---- MODULE Spec2Model ----
(***************************************************************************)
(* FuzzyJoinPrimitive (distil_primitives_contrib/fuzzy_join.py): the       *)
(* fuzzy join of two tables.  produce validates the hyperparameters,       *)
(* classifies every column pair, splits the left table into num_splits     *)
(* chunks, runs _produce_threaded on every chunk through a joblib worker   *)
(* pool and concatenates the chunk results by chunk index.                 *)
(*                                                                         *)
(* Numbers: accuracy and tolerances are kept in hundredths (accuracy 0.9   *)
(* is 90, an absolute tolerance of 8.0 is 800), cell values are integers,  *)
(* and the arithmetic is exact.                                            *)
(* A cell is <<>> (null: None, NaN, NaT) or <<x>> (the value x).           *)
(* pandas, numpy, joblib and rapidfuzz calls are modelled by their         *)
(* documented behaviour (pandas 1.x, the release line the code targets).   *)
(***************************************************************************)
EXTENDS Integers, Sequences, FiniteSets, TLC

VARIABLES
    hyperparams,    \* self.hyperparams
    inputs,         \* the left and right datasets as the caller supplied them
    frames,         \* the DataFrame objects alive, by identity
    pc,             \* position of produce
    error,          \* the exception that ended produce, or NoError
    config,         \* produce's locals after validation and classification
    left_df_split,  \* the chunks of the left table
    next_job,       \* index of the next job the pool dispatches
    tasks,          \* the chunk tasks that are running, by index
    joined_data,    \* the (index, output) pair of every job that returned,
                    \* in job order as joblib's Parallel lists them
    joined          \* the concatenated table of line 334

vars == <<hyperparams, inputs, frames, pc, error, config, left_df_split,
          next_job, tasks, joined_data, joined>>

(***************************************************************************)
(* Bounds of the model.                                                    *)
(***************************************************************************)
MaxLeft == 2
MaxRight == 2
MaxJobs == 2

(***************************************************************************)
(* Program constants.                                                      *)
(***************************************************************************)
num_splits == 32

_STRING_JOIN_TYPES == {"CategoricalData", "Text", "Boolean"}
_NUMERIC_JOIN_TYPES == {"Integer", "Float"}
_VECTOR_JOIN_TYPES == {"FloatVector"}
_GEO_JOIN_TYPES == {"BoundingPolygon"}
_DATETIME_JOIN_TYPES == {"DateTime"}
_SUPPORTED_TYPES ==
    _STRING_JOIN_TYPES \cup _NUMERIC_JOIN_TYPES \cup _DATETIME_JOIN_TYPES
        \cup _VECTOR_JOIN_TYPES \cup _GEO_JOIN_TYPES

(***************************************************************************)
(* Cells, sequences and tables.                                            *)
(***************************************************************************)
Null == <<>>
Some(x) == <<x>>
IsNull(c) == Len(c) = 0

NoError == [type |-> "", at |-> ""]
Raise(type, at) == [type |-> type, at |-> at]

Abs(x) == IF x < 0 THEN -x ELSE x
Min(a, b) == IF a <= b THEN a ELSE b

Range(s) == {s[i] : i \in 1..Len(s)}
Contains(s, x) == \E i \in 1..Len(s) : s[i] = x

RECURSIVE Flatten(_)
Flatten(ss) == IF Len(ss) = 0 THEN <<>> ELSE Head(ss) \o Flatten(Tail(ss))

RECURSIVE SelectIdx(_, _, _)
\* the indices i of 1..n with Keep[i], ascending, from k on
SelectIdx(Keep, n, k) ==
    IF k > n THEN <<>>
    ELSE (IF Keep[k] THEN <<k>> ELSE <<>>) \o SelectIdx(Keep, n, k + 1)

\* pandas.unique / Series.unique: the distinct values in order of first
\* appearance (a null counts as one value)
unique(s) ==
    LET first == [i \in 1..Len(s) |-> \A j \in 1..(i - 1) : s[j] # s[i]]
        idx == SelectIdx(first, Len(s), 1)
    IN [k \in 1..Len(idx) |-> s[idx[k]]]

DataFrame(columns, rows) == [columns |-> columns, rows |-> rows]

ColPos(df, name) ==
    IF Contains(df.columns, name)
    THEN CHOOSE i \in 1..Len(df.columns) : df.columns[i] = name
    ELSE 0

HasCol(df, name) == Contains(df.columns, name)

\* df[name]: the cells of one column, in row order
Column(df, name) ==
    LET p == ColPos(df, name) IN [i \in 1..Len(df.rows) |-> df.rows[i][p]]

\* df.rename(columns={old: new}, inplace=True): a missing label is ignored
rename(df, old, new) ==
    [df EXCEPT !.columns =
        [i \in 1..Len(df.columns) |->
            IF df.columns[i] = old THEN new ELSE df.columns[i]]]

\* df.drop(columns=names) with every name present
drop(df, names) ==
    LET keep == [i \in 1..Len(df.columns) |-> ~Contains(names, df.columns[i])]
        idx == SelectIdx(keep, Len(df.columns), 1)
    IN DataFrame([k \in 1..Len(idx) |-> df.columns[idx[k]]],
                 [r \in 1..Len(df.rows) |->
                     [k \in 1..Len(idx) |-> df.rows[r][idx[k]]]])

\* df[name] = cells: a new column is appended, an existing one overwritten
SetColumn(df, name, cells) ==
    IF HasCol(df, name)
    THEN [df EXCEPT !.rows =
            [r \in 1..Len(df.rows) |->
                [df.rows[r] EXCEPT ![ColPos(df, name)] = cells[r]]]]
    ELSE DataFrame(Append(df.columns, name),
                   [r \in 1..Len(df.rows) |-> Append(df.rows[r], cells[r])])

(***************************************************************************)
(* Hyperparameter values: a scalar or a sequence, as the Union             *)
(* hyperparameters give them.                                              *)
(***************************************************************************)
Str(s) == [kind |-> "str", val |-> s]
Float(x) == [kind |-> "float", val |-> x]
Bool(b) == [kind |-> "bool", val |-> b]
List(s) == [kind |-> "list", items |-> s]

\* [x]: a list holding the one value x
ListOf(x) == List(<<x>>)
\* the list whose elements are the scalars of s
FloatList(s) == List([i \in 1..Len(s) |-> Float(s[i])])
BoolList(s) == List([i \in 1..Len(s) |-> Bool(s[i])])
StrList(s) == List([i \in 1..Len(s) |-> Str(s[i])])

\* accuracy <= 0.0 or accuracy > 1.0
OutOfRange(a) == a <= 0 \/ a > 100

\* produce, lines 249-283: the shape and range checks on accuracy and
\* absolute_accuracy; the exception raised, or ""
check_accuracy(accuracy, absolute_accuracy) ==
    IF accuracy.kind = "float" /\ absolute_accuracy.kind # "bool"
        THEN "InvalidArgumentValueError"
    ELSE IF accuracy.kind # "float" /\ absolute_accuracy.kind = "bool"
        THEN "InvalidArgumentValueError"
    ELSE IF accuracy.kind = "float" /\ ~absolute_accuracy.val
        THEN (IF OutOfRange(accuracy.val)
              THEN "InvalidArgumentValueError" ELSE "")
    ELSE IF accuracy.kind = "list" /\ absolute_accuracy.kind = "list"
        THEN (IF Len(accuracy.items) # Len(absolute_accuracy.items)
                THEN "InvalidArgumentValueError"
              ELSE IF \E i \in 1..Len(accuracy.items) :
                         OutOfRange(accuracy.items[i].val)
                         /\ ~absolute_accuracy.items[i].val
                \* line 282 builds its message from the undefined name acc
                THEN "NameError"
              ELSE "")
    ELSE ""

\* produce, lines 288-296: the check on left_col and right_col
check_columns(left_col, right_col, accuracy) ==
    IF left_col.kind # right_col.kind
        THEN "InvalidArgumentTypeError"
    ELSE IF left_col.kind = "list"
            /\ Len(left_col.items) # Len(right_col.items)
            /\ accuracy.kind # "list"
        \* len(accuracy) of a float
        THEN "TypeError"
    ELSE ""

\* produce, lines 249-301: the exception raised, or the normalised
\* left_col, right_col, accuracy and absolute_accuracy
validate(hp) ==
    LET e1 == check_accuracy(hp.accuracy, hp.absolute_accuracy)
        e2 == check_columns(hp.left_col, hp.right_col, hp.accuracy)
        wrap == hp.left_col.kind = "str"
    IN [error |-> IF e1 # "" THEN Raise(e1, "validate")
                  ELSE IF e2 # "" THEN Raise(e2, "validate")
                  ELSE NoError,
        left_col |-> IF wrap THEN ListOf(hp.left_col) ELSE hp.left_col,
        right_col |-> IF wrap THEN ListOf(hp.right_col) ELSE hp.right_col,
        accuracy |-> IF wrap THEN ListOf(hp.accuracy) ELSE hp.accuracy,
        absolute_accuracy |->
            IF wrap THEN ListOf(hp.absolute_accuracy)
            ELSE hp.absolute_accuracy]

(***************************************************************************)
(* Type classification.                                                    *)
(***************************************************************************)
\* the declared semantic types of a column, set() when no column has the name
_get_column_semantic_type(dataset, col_name) ==
    IF col_name \in DOMAIN dataset.types THEN dataset.types[col_name] ELSE {}

_get_join_semantic_type(left, left_col, right, right_col) ==
    LET left_types == _get_column_semantic_type(left, left_col)
        right_types == _get_column_semantic_type(right, right_col)
        supported_left_types == left_types \cap _SUPPORTED_TYPES
        supported_right_types == right_types \cap _SUPPORTED_TYPES
        join_types == supported_left_types \cap supported_right_types
    IN IF join_types # {} THEN join_types
       ELSE IF left_types \cap _NUMERIC_JOIN_TYPES # {}
               /\ right_types \cap _NUMERIC_JOIN_TYPES # {}
            THEN {"Float"}
       ELSE IF left_types \cap _STRING_JOIN_TYPES # {}
               /\ right_types \cap _STRING_JOIN_TYPES # {}
            THEN {"Text"}
       ELSE {}

\* produce, lines 303-313: one classification per left column; right_col[i]
\* raises IndexError when right_col is the shorter list
classify(left, right, left_col, right_col) ==
    IF Len(right_col.items) < Len(left_col.items)
    THEN [error |-> Raise("IndexError", "classify"), join_types |-> <<>>]
    ELSE [error |-> NoError,
          join_types |->
            [i \in 1..Len(left_col.items) |->
                _get_join_semantic_type(left, left_col.items[i].val,
                                        right, right_col.items[i].val)]]

(***************************************************************************)
(* Chunking.                                                               *)
(***************************************************************************)
\* numpy.array_split(rows, n): the first Len(rows) % n chunks hold
\* Len(rows) \div n + 1 rows, the others Len(rows) \div n
array_split(rows, n) ==
    LET each == Len(rows) \div n
        extras == Len(rows) % n
        size(k) == IF k <= extras THEN each + 1 ELSE each
        start(k) == (k - 1) * each + Min(k - 1, extras)
    IN [k \in 1..n |-> SubSeq(rows, start(k) + 1, start(k) + size(k))]

(***************************************************************************)
(* Match strategies.  Each builds the synthetic key cells of the left      *)
(* rows; an operator named *_error gives the exception the strategy        *)
(* raises on its arguments, or "".                                         *)
(***************************************************************************)
\* rapidfuzz's default scorer (WRatio) in hundredths of a point, on the
\* strings of the model: equal strings score 100, "Alice"/"Alicia" score
\* 72.73 (8 of 11 characters in common order), strings with no shared
\* character score 0
WRatio(a, b) ==
    IF a = b THEN 10000
    ELSE IF {a, b} = {"Alice", "Alicia"} THEN 7273
    ELSE 0

RECURSIVE extractOne(_, _, _, _)
\* process.extractOne(match, choices): the index of the first choice with
\* the maximal score, from choice k on, best being the best before k
extractOne(match, choices, k, best) ==
    IF k > Len(choices) THEN best
    ELSE extractOne(match, choices, k + 1,
            IF best = 0 \/ WRatio(match, choices[k][1])
                            > WRatio(match, choices[best][1])
            THEN k ELSE best)

\* min_score is accuracy * 100; choices is not empty
_string_fuzzy_match(match, choices, min_score) ==
    LET index == extractOne(match[1], choices, 1, 0)
    IN IF WRatio(match[1], choices[index][1]) >= min_score * 100
       THEN choices[index] ELSE Null

_create_string_merge_cols_error(left_df, left_col, right_df, right_col, accuracy) ==
    IF accuracy.kind # "float" THEN "TypeError"
    ELSE IF ~HasCol(left_df, left_col) THEN "KeyError"
    ELSE IF accuracy.val < 100 /\ ~HasCol(right_df, right_col) THEN "KeyError"
    \* extractOne returns None when there is no choice, and the unpacking
    \* of line 616 raises
    ELSE IF accuracy.val < 100 /\ Len(left_df.rows) > 0
            /\ Len(right_df.rows) = 0 THEN "TypeError"
    ELSE ""

\* the cells of the column lefty_string<index>
_create_string_merge_cols(left_df, left_col, right_df, right_col, accuracy) ==
    IF accuracy.val < 100
    THEN LET right_keys == unique(Column(right_df, right_col))
             cells == Column(left_df, left_col)
         IN [r \in 1..Len(cells) |->
                _string_fuzzy_match(cells[r], right_keys, accuracy.val)]
    ELSE Column(left_df, left_col)

RECURSIVE numeric_scan_first(_, _, _, _, _)
\* mutation of numeric_scan: a choice as near as the best one is not taken
numeric_scan_first(match, choices, tolerance, k, best) ==
    IF k > Len(choices) THEN best.min_val
    ELSE LET num == choices[k]
             distance == Abs(match - num[1])
             take == /\ ~IsNull(num)
                     /\ distance * 100 <= tolerance
                     /\ (best.inf \/ distance < best.min_distance)
         IN numeric_scan_first(match, choices, tolerance, k + 1,
                IF take
                THEN [min_val |-> num, inf |-> FALSE, min_distance |-> distance]
                ELSE best)

RECURSIVE numeric_scan(_, _, _, _, _)
\* the loop of lines 662-666 from choice k on; best holds min_val and
\* min_distance (inf while no choice was taken)
numeric_scan(match, choices, tolerance, k, best) ==
    IF k > Len(choices) THEN best.min_val
    ELSE LET num == choices[k]
             distance == Abs(match - num[1])
             take == /\ ~IsNull(num)
                     /\ distance * 100 <= tolerance
                     /\ (best.inf \/ distance <= best.min_distance)
         IN numeric_scan(match, choices, tolerance, k + 1,
                IF take
                THEN [min_val |-> num, inf |-> FALSE, min_distance |-> distance]
                ELSE best)

\* tolerance in hundredths: accuracy when absolute, match * (1 - accuracy)
\* otherwise; a NaN match compares false with everything
_numeric_fuzzy_match(match, choices, accuracy, is_absolute) ==
    IF IsNull(match) THEN Null
    ELSE numeric_scan(match[1], choices,
            IF is_absolute THEN accuracy ELSE match[1] * (100 - accuracy),
            1, [min_val |-> Null, inf |-> TRUE, min_distance |-> 0])

\* the truth value Python gives a hyperparameter value
Truthy(v) == IF v.kind = "list" THEN Len(v.items) > 0 ELSE v.val

_create_numeric_merge_cols_error(left_df, left_col, right_df, right_col, accuracy, is_absolute) ==
    IF ~HasCol(right_df, right_col) \/ ~HasCol(left_df, left_col)
        THEN "KeyError"
    ELSE IF Len(left_df.rows) = 0 THEN ""
    \* 1.0 - accuracy, or distance <= tolerance, with a list for accuracy
    ELSE IF accuracy.kind # "float"
            /\ (~Truthy(is_absolute) \/ Len(right_df.rows) > 0)
        THEN "TypeError"
    ELSE ""

\* the cells of the column lefty_numeric<index>
_create_numeric_merge_cols(left_df, left_col, right_df, right_col, accuracy, is_absolute) ==
    LET choices == unique(Column(right_df, right_col))
        cells == Column(left_df, left_col)
    IN [r \in 1..Len(cells) |->
           _numeric_fuzzy_match(cells[r], choices, accuracy.val,
                                Truthy(is_absolute))]

\* metres of great circle per degree of latitude (haversine's mean earth
\* radius of 6371008.8 m times pi / 180)
MetersPerDegree == 111195

\* hs.haversine(p, q, Unit.METERS) in whole metres, for two points of one
\* meridian (the points of the model all have longitude 0)
haversine(p, q) == MetersPerDegree * Abs(p[1] - q[1])

\* topoints: a flat coordinate sequence as (lat, lon) points; a trailing
\* odd value is left out
topoints(x) == [i \in 1..(Len(x) \div 2) |-> <<x[2 * i - 1], x[2 * i]>>]

\* mutation of _geo_fuzzy_match: every candidate is kept, however far
_geo_fuzzy_match_unbounded(match, choices, right_points, col, accuracy) ==
    choices

\* the rows of choices (indices of right rows, ascending) whose point in
\* column col is closer than accuracy metres to match
_geo_fuzzy_match(match, choices, right_points, col, accuracy) ==
    LET keep == [k \in 1..Len(choices) |->
                    haversine(match, right_points[choices[k]][col]) * 100
                        < accuracy]
        idx == SelectIdx(keep, Len(choices), 1)
    IN [k \in 1..Len(idx) |-> choices[idx[k]]]

RECURSIVE geo_narrow(_, _, _, _, _)
\* lines 781-798: the candidates of one left row after the point columns
\* i..Len(left_points)
geo_narrow(left_points, right_points, choices, i, accuracy) ==
    IF i > Len(left_points) THEN choices
    ELSE geo_narrow(left_points, right_points,
            _geo_fuzzy_match(left_points[i], choices, right_points, i, accuracy),
            i + 1, accuracy)

\* the number of values of the first cell of a vector-valued column
vector_length(df, col) == Len(Column(df, col)[1][1])

_create_geo_vector_merging_cols_error(left_df, left_col, right_df, right_col, accuracy, is_absolute) ==
    IF ~HasCol(left_df, left_col) THEN "KeyError"
    ELSE IF Len(left_df.rows) = 0 THEN "IndexError"
    ELSE IF ~HasCol(right_df, right_col) THEN "KeyError"
    ELSE IF Len(right_df.rows) = 0 THEN "IndexError"
    \* new_left_cols[0], new_right_cols[0]
    ELSE IF vector_length(left_df, left_col) \div 2 = 0
            \/ vector_length(right_df, right_col) \div 2 = 0 THEN "IndexError"
    ELSE IF ~Truthy(is_absolute) THEN "InvalidArgumentTypeError"
    ELSE IF accuracy.kind # "float" THEN "TypeError"
    \* new_right_cols[i]
    ELSE IF vector_length(right_df, right_col) \div 2
                < vector_length(left_df, left_col) \div 2 THEN "IndexError"
    \* line 806 assigns more columns than it names
    ELSE IF vector_length(right_df, right_col) \div 2
                > vector_length(left_df, left_col) \div 2 THEN "ValueError"
    ELSE ""

\* the point columns of a polygon column: one sequence of cells per point
point_columns(df, col) ==
    LET cells == Column(df, col)
    IN [i \in 1..(vector_length(df, col) \div 2) |->
           [r \in 1..Len(cells) |-> Some(topoints(cells[r][1])[i])]]

\* the cells of the columns lefty_vector<index>_<i>: the points of the first
\* right row left after narrowing, None when no row is left
_create_geo_vector_merging_cols(left_df, left_col, right_df, right_col, accuracy) ==
    LET left_cells == Column(left_df, left_col)
        right_cells == Column(right_df, right_col)
        right_points == [j \in 1..Len(right_cells) |-> topoints(right_cells[j][1])]
        matches == [r \in 1..Len(left_cells) |->
                       geo_narrow(topoints(left_cells[r][1]), right_points,
                                  [j \in 1..Len(right_cells) |-> j], 1,
                                  accuracy.val)]
    IN [i \in 1..(vector_length(left_df, left_col) \div 2) |->
           [r \in 1..Len(left_cells) |->
               IF Len(matches[r]) > 0
               THEN Some(right_points[matches[r][1]][i]) ELSE Null]]

_create_vector_merging_cols_error(left_df, left_col, right_df, right_col, accuracy, is_absolute) ==
    IF ~HasCol(left_df, left_col) THEN "KeyError"
    ELSE IF Len(left_df.rows) = 0 THEN "IndexError"
    \* .shape of a missing value
    ELSE IF IsNull(Column(left_df, left_col)[1]) THEN "AttributeError"
    ELSE IF ~HasCol(right_df, right_col) THEN "KeyError"
    ELSE IF Len(right_df.rows) = 0 THEN "IndexError"
    ELSE IF IsNull(Column(right_df, right_col)[1]) THEN "AttributeError"
    \* new_right_cols[i]
    ELSE IF vector_length(right_df, right_col)
                < vector_length(left_df, left_col) THEN "IndexError"
    ELSE IF accuracy.kind # "float" /\ vector_length(left_df, left_col) > 0
        THEN "TypeError"
    ELSE ""

\* the value columns of a vector column: one sequence of cells per dimension
\* (the values of a vector are cells: a NaN value is the null cell)
value_columns(df, col) ==
    LET cells == Column(df, col)
    IN [i \in 1..vector_length(df, col) |->
           [r \in 1..Len(cells) |-> cells[r][1][i]]]

\* the cells of the columns lefty_vector<index>_<i>: the numeric match of
\* dimension i against the whole right column of dimension i
_create_vector_merging_cols(left_df, left_col, right_df, right_col, accuracy, is_absolute) ==
    LET left_values == value_columns(left_df, left_col)
        right_values == value_columns(right_df, right_col)
    IN [i \in 1..Len(left_values) |->
           [r \in 1..Len(left_df.rows) |->
               _numeric_fuzzy_match(left_values[i][r], right_values[i],
                                    accuracy.val, Truthy(is_absolute))]]

\* dateutil's parser.parse on the date texts of the model, in days since
\* 2021-01-01
parse(dt) ==
    CASE dt = "2021-01-01" -> 0
      [] dt = "Jan 1 2021" -> 0
      [] dt = "2021-01-02" -> 1
      [] dt = "2021-01-03" -> 2
      [] dt = "2021-01-05" -> 4
      [] dt = "Jan 5 2021" -> 4
      [] dt = "2021-01-11" -> 10

parsed(df, col) ==
    LET cells == Column(df, col) IN [r \in 1..Len(cells) |-> parse(cells[r][1])]

SetMin(S) == CHOOSE x \in S : \A y \in S : x <= y
SetMax(S) == CHOOSE x \in S : \A y \in S : y <= x

RECURSIVE sorted(_)
\* numpy.unique: the distinct values, ascending
sorted(S) ==
    IF S = {} THEN <<>> ELSE <<SetMin(S)>> \o sorted(S \ {SetMin(S)})

\* mutation of _compute_time_range: the larger of the two ranges
_compute_time_range_max(left, right) ==
    LET l == SetMax(Range(left)) - SetMin(Range(left))
        r == SetMax(Range(right)) - SetMin(Range(right))
    IN IF l < r THEN r ELSE l

_compute_time_range(left, right) ==
    Min(SetMax(Range(left)) - SetMin(Range(left)),
        SetMax(Range(right)) - SetMin(Range(right)))

_compute_datetime_tolerance_error(left_df, left_col, right_df, right_col, accuracy) ==
    IF ~HasCol(right_df, right_col) \/ ~HasCol(left_df, left_col)
        THEN "KeyError"
    \* numpy.amin of an empty array
    ELSE IF Len(left_df.rows) = 0 \/ Len(right_df.rows) = 0 THEN "ValueError"
    ELSE IF accuracy.kind # "float" THEN "TypeError"
    ELSE ""

\* in hundredths of a day
_compute_datetime_tolerance(left_df, left_col, right_df, right_col, accuracy) ==
    (100 - accuracy.val)
        * _compute_time_range(parsed(left_df, left_col),
                              parsed(right_df, right_col))

RECURSIVE datetime_scan_last(_, _, _, _, _)
\* mutation of datetime_scan: a choice as near as the best one is taken
datetime_scan_last(match, choices, tolerance, k, best) ==
    IF k > Len(choices) THEN best.min_date
    ELSE LET distance == Abs(match - choices[k])
             take == /\ distance * 100 <= tolerance
                     /\ (best.none \/ distance <= best.min_distance)
         IN datetime_scan_last(match, choices, tolerance, k + 1,
                IF take
                THEN [min_date |-> Some(choices[k]), none |-> FALSE,
                      min_distance |-> distance]
                ELSE best)

RECURSIVE datetime_scan(_, _, _, _, _)
\* the loop of lines 933-939 from choice k on
datetime_scan(match, choices, tolerance, k, best) ==
    IF k > Len(choices) THEN best.min_date
    ELSE LET distance == Abs(match - choices[k])
             take == /\ distance * 100 <= tolerance
                     /\ (best.none \/ distance < best.min_distance)
         IN datetime_scan(match, choices, tolerance, k + 1,
                IF take
                THEN [min_date |-> Some(choices[k]), none |-> FALSE,
                      min_distance |-> distance]
                ELSE best)

_datetime_fuzzy_match(match, choices, tolerance) ==
    datetime_scan(match, choices, tolerance, 1,
                  [min_date |-> Null, none |-> TRUE, min_distance |-> 0])

\* the cells of the column lefty_datetime<index>
_create_datetime_merge_cols(left_df, left_col, right_df, right_col, tolerance) ==
    LET choices == sorted(Range(parsed(right_df, right_col)))
        left_keys == parsed(left_df, left_col)
    IN [r \in 1..Len(left_keys) |->
           _datetime_fuzzy_match(left_keys[r], choices, tolerance)]

(***************************************************************************)
(* pandas.merge and pandas.concat.                                         *)
(***************************************************************************)
NullRow(n) == [i \in 1..n |-> Null]

\* the key tuple of every row
keys_of(df, on) ==
    [r \in 1..Len(df.rows) |-> [k \in 1..Len(on) |-> df.rows[r][ColPos(df, on[k])]]]

\* mutation of rows_with: a key joins the first row of equal key only
rows_with_first(ks, key) ==
    LET m == SelectIdx([r \in 1..Len(ks) |-> ks[r] = key], Len(ks), 1)
    IN IF Len(m) = 0 THEN m ELSE <<m[1]>>

\* the rows of ks whose key is key, ascending; a null key equals a null key
\* (pandas matches rows whose keys are both null)
rows_with(ks, key) ==
    SelectIdx([r \in 1..Len(ks) |-> ks[r] = key], Len(ks), 1)

\* the names of the merged table: a name of both tables gets its suffix
merged_columns(left, right) ==
    [i \in 1..Len(left.columns) |->
        IF Contains(right.columns, left.columns[i])
        THEN left.columns[i] \o "_left" ELSE left.columns[i]]
    \o [i \in 1..Len(right.columns) |->
        IF Contains(left.columns, right.columns[i])
        THEN right.columns[i] \o "_right" ELSE right.columns[i]]

merge_error(left, right, how, left_on, right_on) ==
    \* the cross join takes no key columns
    IF how = "cross" THEN "MergeError"
    ELSE IF Len(left_on) # Len(right_on) THEN "ValueError"
    ELSE IF \E k \in 1..Len(left_on) :
                ~HasCol(left, left_on[k]) \/ ~HasCol(right, right_on[k])
        THEN "KeyError"
    ELSE ""

\* the rows of pd.merge(left, right, how, left_on, right_on): left, inner and
\* right keep the row order of the side they preserve; outer lists the keys
\* in order of first appearance, the left keys first
merge_rows(left, right, how, left_on, right_on) ==
    LET lk == keys_of(left, left_on)
        rk == keys_of(right, right_on)
        L == left.rows
        R == right.rows
        no_left == NullRow(Len(left.columns))
        no_right == NullRow(Len(right.columns))
        pairs(r, m) == [k \in 1..Len(m) |-> L[r] \o R[m[k]]]
        of_left(r, keep) ==
            LET m == rows_with(rk, lk[r])
            IN IF Len(m) = 0
               THEN (IF keep THEN <<L[r] \o no_right>> ELSE <<>>)
               ELSE pairs(r, m)
        of_right(j) ==
            LET m == rows_with(lk, rk[j])
            IN IF Len(m) = 0 THEN <<no_left \o R[j]>>
               ELSE [k \in 1..Len(m) |-> L[m[k]] \o R[j]]
        of_key(key) ==
            LET lm == rows_with(lk, key)
                rm == rows_with(rk, key)
            IN IF Len(rm) = 0 THEN [k \in 1..Len(lm) |-> L[lm[k]] \o no_right]
               ELSE IF Len(lm) = 0
                    THEN [k \in 1..Len(rm) |-> no_left \o R[rm[k]]]
               ELSE Flatten([k \in 1..Len(lm) |-> pairs(lm[k], rm)])
        all_keys == unique(lk \o rk)
    IN CASE how = "left" -> Flatten([r \in 1..Len(L) |-> of_left(r, TRUE)])
         [] how = "inner" -> Flatten([r \in 1..Len(L) |-> of_left(r, FALSE)])
         [] how = "right" -> Flatten([j \in 1..Len(R) |-> of_right(j)])
         [] how = "outer" ->
                Flatten([g \in 1..Len(all_keys) |-> of_key(all_keys[g])])

merge(left, right, how, left_on, right_on) ==
    DataFrame(merged_columns(left, right),
              merge_rows(left, right, how, left_on, right_on))

\* pd.concat(dfs, ignore_index=True) of tables with the same columns
concat(dfs) ==
    DataFrame(dfs[1].columns, Flatten([k \in 1..Len(dfs) |-> dfs[k].rows]))

(***************************************************************************)
(* _produce: the key projection (lines 417-509) and the merge (511-524).   *)
(***************************************************************************)
\* v[i] of a hyperparameter value: the exception raised, or ""
subscript_error(v, i) ==
    IF v.kind # "list" THEN "TypeError"
    ELSE IF i > Len(v.items) THEN "IndexError"
    ELSE ""

RECURSIVE SetColumns(_, _, _)
\* df[names] = columns
SetColumns(df, names, columns) ==
    IF Len(names) = 0 THEN df
    ELSE SetColumns(SetColumn(df, Head(names), Head(columns)),
                    Tail(names), Tail(columns))

\* prefix + str(index) + "_" + str(i) for i in range(n)
vector_names(prefix, index, n) ==
    [i \in 1..n |-> prefix \o ToString(index) \o "_" \o ToString(i - 1)]

Failed(st, type) == [st EXCEPT !.error = type]

string_branch(st, left_col, right_col, accuracy, index) ==
    LET e == _create_string_merge_cols_error(st.left_df, left_col,
                                             st.right_df, right_col, accuracy)
        left_name == "lefty_string" \o ToString(index)
        right_name == "righty_string" \o ToString(index)
    IN IF e # "" THEN Failed(st, e)
       ELSE [st EXCEPT
            !.left_df = SetColumn(st.left_df, left_name,
                _create_string_merge_cols(st.left_df, left_col,
                                          st.right_df, right_col, accuracy)),
            !.right_df = rename(st.right_df, right_col, right_name),
            !.new_left_cols = Append(st.new_left_cols, left_name),
            !.new_right_cols = Append(st.new_right_cols, right_name)]

numeric_branch(st, left_col, right_col, accuracy, index, is_absolute) ==
    LET e == _create_numeric_merge_cols_error(st.left_df, left_col,
                st.right_df, right_col, accuracy, is_absolute)
        left_name == "lefty_numeric" \o ToString(index)
        right_name == "righty_numeric" \o ToString(index)
    IN IF e # "" THEN Failed(st, e)
       ELSE [st EXCEPT
            !.left_df = SetColumn(st.left_df, left_name,
                _create_numeric_merge_cols(st.left_df, left_col,
                    st.right_df, right_col, accuracy, is_absolute)),
            !.right_df = rename(st.right_df, right_col, right_name),
            !.new_left_cols = Append(st.new_left_cols, left_name),
            !.new_right_cols = Append(st.new_right_cols, right_name)]

geo_branch(st, left_col, right_col, accuracy, index, is_absolute) ==
    LET e == _create_geo_vector_merging_cols_error(st.left_df, left_col,
                st.right_df, right_col, accuracy, is_absolute)
        left_names == vector_names("lefty_vector", index,
                                   vector_length(st.left_df, left_col) \div 2)
        right_names == vector_names("righty_vector", index,
                                    vector_length(st.right_df, right_col) \div 2)
    IN IF e # "" THEN Failed(st, e)
       ELSE [st EXCEPT
            !.left_df = SetColumns(st.left_df, left_names,
                _create_geo_vector_merging_cols(st.left_df, left_col,
                    st.right_df, right_col, accuracy)),
            !.right_df = SetColumns(st.right_df, right_names,
                                    point_columns(st.right_df, right_col)),
            !.new_left_cols = st.new_left_cols \o left_names,
            !.new_right_cols = st.new_right_cols \o right_names,
            !.right_cols_to_drop = Append(st.right_cols_to_drop, right_col)]

vector_branch(st, left_col, right_col, accuracy, index, is_absolute) ==
    LET e == _create_vector_merging_cols_error(st.left_df, left_col,
                st.right_df, right_col, accuracy, is_absolute)
        left_names == vector_names("lefty_vector", index,
                                   vector_length(st.left_df, left_col))
        right_names == vector_names("righty_vector", index,
                                    vector_length(st.right_df, right_col))
    IN IF e # "" THEN Failed(st, e)
       ELSE [st EXCEPT
            !.left_df = SetColumns(st.left_df, left_names,
                _create_vector_merging_cols(st.left_df, left_col,
                    st.right_df, right_col, accuracy, is_absolute)),
            !.right_df = SetColumns(st.right_df, right_names,
                                    value_columns(st.right_df, right_col)),
            !.new_left_cols = st.new_left_cols \o left_names,
            !.new_right_cols = st.new_right_cols \o right_names,
            !.right_cols_to_drop = Append(st.right_cols_to_drop, right_col)]

\* mutation of datetime_branch: the tolerance is taken from the range of
\* the chunk, not of the whole left column
datetime_branch_chunk(st, left_df_full, left_col, right_col, accuracy, index) ==
    LET e == _compute_datetime_tolerance_error(st.left_df, left_col,
                st.right_df, right_col, accuracy)
        tolerance == _compute_datetime_tolerance(st.left_df, left_col,
                        st.right_df, right_col, accuracy)
        left_name == "lefty_datetime" \o ToString(index)
        right_name == "righty_datetime" \o ToString(index)
    IN IF e # "" THEN Failed(st, e)
       ELSE IF ~HasCol(st.left_df, left_col) THEN Failed(st, "KeyError")
       ELSE [st EXCEPT
            !.left_df = SetColumn(st.left_df, left_name,
                _create_datetime_merge_cols(st.left_df, left_col,
                    st.right_df, right_col, tolerance)),
            !.right_df = SetColumn(st.right_df, right_name,
                LET ts == parsed(st.right_df, right_col)
                IN [r \in 1..Len(ts) |-> Some(ts[r])]),
            !.new_left_cols = Append(st.new_left_cols, left_name),
            !.new_right_cols = Append(st.new_right_cols, right_name),
            !.right_cols_to_drop = Append(st.right_cols_to_drop, right_col)]

datetime_branch(st, left_df_full, left_col, right_col, accuracy, index) ==
    LET e == _compute_datetime_tolerance_error(left_df_full, left_col,
                st.right_df, right_col, accuracy)
        tolerance == _compute_datetime_tolerance(left_df_full, left_col,
                        st.right_df, right_col, accuracy)
        left_name == "lefty_datetime" \o ToString(index)
        right_name == "righty_datetime" \o ToString(index)
    IN IF e # "" THEN Failed(st, e)
       ELSE IF ~HasCol(st.left_df, left_col) THEN Failed(st, "KeyError")
       ELSE [st EXCEPT
            !.left_df = SetColumn(st.left_df, left_name,
                _create_datetime_merge_cols(st.left_df, left_col,
                    st.right_df, right_col, tolerance)),
            !.right_df = SetColumn(st.right_df, right_name,
                LET ts == parsed(st.right_df, right_col)
                IN [r \in 1..Len(ts) |-> Some(ts[r])]),
            !.new_left_cols = Append(st.new_left_cols, left_name),
            !.new_right_cols = Append(st.new_right_cols, right_name),
            !.right_cols_to_drop = Append(st.right_cols_to_drop, right_col)]

\* one pass of the loop of line 421 (col_index counts from 1 here)
project_column(st, left_df_full, cfg, col_index) ==
    LET join_type == cfg.join_types[col_index]
        left_col == cfg.left_col.items[col_index].val
        right_col == cfg.right_col.items[col_index].val
        acc_error == subscript_error(cfg.accuracy, col_index)
        abs_error == subscript_error(cfg.absolute_accuracy, col_index)
        accuracy == cfg.accuracy.items[col_index]
        is_absolute == cfg.absolute_accuracy.items[col_index]
        index == col_index - 1
    IN IF _STRING_JOIN_TYPES \cap join_type # {}
       THEN (IF acc_error # "" THEN Failed(st, acc_error)
             ELSE string_branch(st, left_col, right_col, accuracy, index))
       ELSE IF _NUMERIC_JOIN_TYPES \cap join_type # {}
       THEN (IF acc_error # "" THEN Failed(st, acc_error)
             ELSE IF abs_error # "" THEN Failed(st, abs_error)
             ELSE numeric_branch(st, left_col, right_col, accuracy, index,
                                 is_absolute))
       ELSE IF _GEO_JOIN_TYPES \cap join_type # {}
       THEN (IF acc_error # "" THEN Failed(st, acc_error)
             ELSE IF abs_error # "" THEN Failed(st, abs_error)
             ELSE geo_branch(st, left_col, right_col, accuracy, index,
                             is_absolute))
       ELSE IF _VECTOR_JOIN_TYPES \cap join_type # {}
       THEN (IF acc_error # "" THEN Failed(st, acc_error)
             ELSE IF abs_error # "" THEN Failed(st, abs_error)
             ELSE vector_branch(st, left_col, right_col, accuracy, index,
                                is_absolute))
       ELSE IF _DATETIME_JOIN_TYPES \cap join_type # {}
       THEN (IF acc_error # "" THEN Failed(st, acc_error)
             ELSE datetime_branch(st, left_df_full, left_col, right_col,
                                  accuracy, index))
       ELSE Failed(st, "InvalidArgumentValueError")

RECURSIVE project_columns(_, _, _, _)
project_columns(st, left_df_full, cfg, col_index) ==
    IF col_index > Len(cfg.left_col.items) \/ st.error # "" THEN st
    ELSE project_columns(project_column(st, left_df_full, cfg, col_index),
                         left_df_full, cfg, col_index + 1)

\* lines 417-509: the working tables with their synthetic key columns, the
\* right table without the columns to drop
key_projection(left_df_full, left_df, right_df, cfg) ==
    LET st == project_columns(
                [error |-> "", left_df |-> left_df, right_df |-> right_df,
                 new_left_cols |-> <<>>, new_right_cols |-> <<>>,
                 right_cols_to_drop |-> <<>>],
                left_df_full, cfg, 1)
        to_drop == IF HasCol(st.right_df, "d3mIndex")
                   THEN Append(st.right_cols_to_drop, "d3mIndex")
                   ELSE st.right_cols_to_drop
    IN IF st.error # "" THEN st
       ELSE IF \E k \in 1..Len(to_drop) : ~HasCol(st.right_df, to_drop[k])
            THEN Failed(st, "KeyError")
       ELSE [st EXCEPT !.right_df = drop(st.right_df, to_drop),
                       !.right_cols_to_drop = to_drop]

\* lines 511-524 on the working tables: the exception raised or the joined
\* table without its synthetic key columns
merge_step(left_df, right_df, how, new_left_cols, new_right_cols) ==
    LET e == merge_error(left_df, right_df, how, new_left_cols, new_right_cols)
    IN IF e # "" THEN [error |-> e, joined |-> DataFrame(<<>>, <<>>)]
       ELSE [error |-> "",
             joined |-> drop(merge(left_df, right_df, how,
                                   new_left_cols, new_right_cols),
                             new_left_cols \o new_right_cols)]

\* _produce as one call
_produce(left_df_full, left_df, right_df, cfg, how) ==
    LET st == key_projection(left_df_full, left_df, right_df, cfg)
    IN IF st.error # "" THEN [error |-> st.error, joined |-> DataFrame(<<>>, <<>>)]
       ELSE merge_step(st.left_df, st.right_df, how,
                       st.new_left_cols, st.new_right_cols)

(***************************************************************************)
(* produce.                                                                *)
(***************************************************************************)
EmptyFrame == DataFrame(<<>>, <<>>)

\* the identity of the object left_dfs[index].reset_index(drop=True) returns
reset_index(index) == "left_chunk" \o ToString(index)

\* mutation of right_df_copy: the task works on the caller's right table
right_df_shared(index) == "right"

\* the identity of the object right_df.copy() returns in task index
right_df_copy(index) == "right_copy" \o ToString(index)

\* mutation of joined_split_of: the results are placed last index first
joined_split_reversed(data) ==
    [i \in 1..num_splits |->
        data[CHOOSE k \in 1..Len(data) :
                data[k][1].index = num_splits - i][1].output]

\* lines 332-333: joined_split[i] = d for every (i, d) of joined_data
joined_split_of(data) ==
    [i \in 1..num_splits |->
        data[CHOOSE k \in 1..Len(data) : data[k][1].index = i - 1][1].output]

\* mutation of task_raised: the exception of a task is swallowed
task_swallowed == "dispatch"

\* line 329: Parallel re-raises the exception of a task in produce
task_raised == "error"

\* lines 249-301
Validate ==
    /\ pc = "validate"
    /\ LET v == validate(hyperparams)
       IN IF v.error # NoError
          THEN /\ pc' = "error"
               /\ error' = v.error
               /\ UNCHANGED config
          ELSE /\ pc' = "classify"
               /\ config' = [config EXCEPT
                    !.left_col = v.left_col,
                    !.right_col = v.right_col,
                    !.accuracy = v.accuracy,
                    !.absolute_accuracy = v.absolute_accuracy]
               /\ UNCHANGED error
    /\ UNCHANGED <<hyperparams, inputs, frames, left_df_split, next_job,
                   tasks, joined_data, joined>>

\* lines 303-328: the join types, the chunks and the jobs
Classify ==
    /\ pc = "classify"
    /\ LET c == classify(inputs.left, inputs.right,
                         config.left_col, config.right_col)
       IN IF c.error # NoError
          THEN /\ pc' = "error"
               /\ error' = c.error
               /\ UNCHANGED <<config, left_df_split>>
          ELSE /\ pc' = "dispatch"
               /\ config' = [config EXCEPT !.join_types = c.join_types]
               /\ left_df_split' = array_split(frames["left"].rows, num_splits)
               /\ UNCHANGED error
    /\ UNCHANGED <<hyperparams, inputs, frames, next_job, tasks,
                   joined_data, joined>>

\* the pool starts job index, the next of the queue, when a worker is free:
\* _produce_threaded up to the merge (lines 390-401 and 417-509)
TaskStart(index) ==
    /\ pc = "dispatch"
    /\ index = next_job
    /\ index < num_splits
    /\ Cardinality(DOMAIN tasks) < hyperparams.n_jobs
    /\ next_job' = index + 1
    /\ LET chunk == left_df_split[index + 1]
           lid == reset_index(index)
           rid == right_df_copy(index)
           made == (lid :> DataFrame(frames["left"].columns, chunk))
                   @@ (rid :> frames["right"]) @@ frames
           st == key_projection(made["left"], made[lid], made[rid], config)
       IN IF Len(chunk) = 0
          THEN /\ joined_data' = [joined_data EXCEPT ![index + 1] =
                                        Some([index |-> index, output |-> Null])]
               /\ UNCHANGED <<frames, tasks, pc, error>>
          ELSE /\ frames' = [made EXCEPT ![lid] = st.left_df,
                                         ![rid] = st.right_df]
               /\ IF st.error # ""
                  THEN /\ pc' = task_raised
                       /\ error' = Raise(st.error, "task")
                       /\ UNCHANGED tasks
                  ELSE /\ tasks' = (index :> [left_df |-> lid,
                                              right_df |-> rid,
                                              new_left_cols |-> st.new_left_cols,
                                              new_right_cols |-> st.new_right_cols])
                                   @@ tasks
                       /\ UNCHANGED <<pc, error>>
               /\ UNCHANGED joined_data
    /\ UNCHANGED <<hyperparams, inputs, config, left_df_split, joined>>

\* a running task merges its working tables and returns (lines 511-524, 402)
TaskFinish(index) ==
    /\ pc = "dispatch"
    /\ index \in DOMAIN tasks
    /\ LET t == tasks[index]
           m == merge_step(frames[t.left_df], frames[t.right_df],
                           hyperparams.join_type,
                           t.new_left_cols, t.new_right_cols)
           freed == (DOMAIN frames \ {t.left_df, t.right_df}) \cup {"left", "right"}
       IN /\ IF m.error # ""
             THEN /\ pc' = task_raised
                  /\ error' = Raise(m.error, "task")
                  /\ UNCHANGED joined_data
             ELSE /\ joined_data' = [joined_data EXCEPT ![index + 1] =
                        Some([index |-> index, output |-> Some(m.joined)])]
                  /\ UNCHANGED <<pc, error>>
          /\ frames' = [f \in freed |-> frames[f]]
          /\ tasks' = [k \in DOMAIN tasks \ {index} |-> tasks[k]]
    /\ UNCHANGED <<hyperparams, inputs, config, left_df_split, next_job, joined>>

\* lines 332-375: every job has returned
Reassemble ==
    /\ pc = "dispatch"
    /\ next_job = num_splits
    /\ DOMAIN tasks = {}
    /\ LET joined_split == joined_split_of(joined_data)
           given == SelectIdx([i \in 1..num_splits |->
                                  ~IsNull(joined_split[i])],
                              num_splits, 1)
           all == concat([k \in 1..Len(given) |-> joined_split[given[k]][1]])
       IN \* pd.concat of nothing but None
          IF Len(given) = 0
          THEN /\ pc' = "error"
               /\ error' = Raise("ValueError", "concat")
               /\ UNCHANGED joined
          \* joined[column].iloc[0] of a table with no row (line 343)
          ELSE IF Len(all.columns) > 0 /\ Len(all.rows) = 0
          THEN /\ pc' = "error"
               /\ error' = Raise("IndexError", "result")
               /\ joined' = all
          ELSE /\ pc' = "done"
               /\ joined' = all
               /\ UNCHANGED error
    /\ UNCHANGED <<hyperparams, inputs, frames, config, left_df_split,
                   next_job, tasks, joined_data>>

Next ==
    \/ Validate
    \/ Classify
    \/ \E index \in 0..(num_splits - 1) : TaskStart(index)
    \/ \E index \in 0..(num_splits - 1) : TaskFinish(index)
    \/ Reassemble

(***************************************************************************)
(* The inputs of the model.                                                *)
(***************************************************************************)
Seqs(S, n) == UNION {[1..k -> S] : k \in 0..n}

JoinTypes == {"left", "right", "outer", "inner", "cross"}

\* a table with a row identifier, the join column v and a payload column w
Table(values) ==
    DataFrame(<<"d3mIndex", "v", "w">>,
              [i \in 1..Len(values) |-> <<Some(i - 1), values[i], Some(10 + i)>>])

Dataset(values, types) ==
    [df |-> Table(values),
     types |-> ("d3mIndex" :> {"Integer", "PrimaryKey"}) @@ ("v" :> types)
               @@ ("w" :> {"Integer"})]

Start(left, right, hp) ==
    /\ hyperparams = hp
    /\ inputs = [left |-> left, right |-> right]
    /\ frames = ("left" :> left.df) @@ ("right" :> right.df)
    /\ pc = "validate"
    /\ error = NoError
    /\ config = [left_col |-> List(<<>>), right_col |-> List(<<>>),
                 accuracy |-> List(<<>>), absolute_accuracy |-> List(<<>>),
                 join_types |-> <<>>]
    /\ left_df_split = <<>>
    /\ next_job = 0
    /\ tasks = <<>>
    /\ joined_data = [k \in 1..num_splits |-> Null]
    /\ joined = EmptyFrame

\* one column pair given as scalars
Scalars(accuracy, absolute_accuracy, join_type, n_jobs) ==
    [n_jobs |-> n_jobs, left_col |-> Str("v"), right_col |-> Str("v"),
     accuracy |-> Float(accuracy), join_type |-> join_type,
     absolute_accuracy |-> Bool(absolute_accuracy)]

NumericLeft == {Some(-100), Some(100)}
NumericRight == {Null, Some(-100), Some(108)}
NumericSettings == {<<90, FALSE>>, <<100, FALSE>>, <<800, TRUE>>, <<150, FALSE>>}

\* an Integer column against a Float column, one worker
InitNumeric ==
    \E lv \in Seqs(NumericLeft, MaxLeft), rv \in Seqs(NumericRight, MaxRight),
       s \in NumericSettings, how \in JoinTypes :
        Start(Dataset(lv, {"Integer"}), Dataset(rv, {"Float"}),
              Scalars(s[1], s[2], how, 1))

\* the worker pools, over one right table
PoolRight == <<Some(-100), Some(108)>>

InitPool ==
    \E lv \in Seqs(NumericLeft, MaxLeft), how \in JoinTypes, n \in 1..MaxJobs :
        Start(Dataset(lv, {"Integer"}), Dataset(PoolRight, {"Float"}),
              Scalars(90, FALSE, how, n))

\* two text columns over the same names
StringLeft == {Some("Alice"), Some("Alicia")}
StringRight == {Some("Alice"), Some("Alicia")}
StringSettings == {<<60, FALSE>>, <<80, FALSE>>, <<100, FALSE>>}

InitString ==
    \E lv \in Seqs(StringLeft, MaxLeft), rv \in Seqs(StringRight, MaxRight),
       s \in StringSettings, how \in JoinTypes :
        Start(Dataset(lv, {"Text"}), Dataset(rv, {"Text"}),
              Scalars(s[1], s[2], how, 1))

\* polygons of two points on the meridian 0; the tolerance is in metres
GeoLeft == {Some(<<0, 0, 0, 0>>), Some(<<0, 0, 3, 0>>)}
GeoRight == {Some(<<0, 0, 0, 0>>), Some(<<1, 0, 3, 0>>)}
GeoSettings == {<<15000000, TRUE>>, <<100, TRUE>>, <<100, FALSE>>}

InitGeo ==
    \E lv \in Seqs(GeoLeft, MaxLeft), rv \in Seqs(GeoRight, MaxRight),
       s \in GeoSettings, how \in JoinTypes :
        Start(Dataset(lv, {"BoundingPolygon"}), Dataset(rv, {"BoundingPolygon"}),
              Scalars(s[1], s[2], how, 1))

\* the vector of the numbers x
Vector(x) == Some([i \in 1..Len(x) |-> Some(x[i])])

VectorLeft == {Vector(<<100, 100>>), Vector(<<100, 108>>)}
VectorRight == {Vector(<<100, 108>>), Vector(<<108, 108>>)}
VectorSettings == {<<90, FALSE>>, <<100, FALSE>>}

InitVector ==
    \E lv \in Seqs(VectorLeft, MaxLeft), rv \in Seqs(VectorRight, MaxRight),
       s \in VectorSettings, how \in JoinTypes :
        Start(Dataset(lv, {"FloatVector"}), Dataset(rv, {"FloatVector"}),
              Scalars(s[1], s[2], how, 1))

DateTimeLeft == {Some("2021-01-02"), Some("2021-01-05")}
DateTimeRight == {Some("Jan 1 2021"), Some("2021-01-11")}
DateTimeSettings == {<<50, FALSE>>, <<100, FALSE>>}

InitDateTime ==
    \E lv \in Seqs(DateTimeLeft, MaxLeft), rv \in Seqs(DateTimeRight, MaxRight),
       s \in DateTimeSettings, how \in JoinTypes :
        Start(Dataset(lv, {"DateTime"}), Dataset(rv, {"DateTime"}),
              Scalars(s[1], s[2], how, 1))

\* a left value with two right values at the same distance
TiesLeft == {Some(100)}
TiesRight == {Some(92), Some(108)}
TiesSettings == {<<90, FALSE>>, <<800, TRUE>>}

InitTies ==
    \E lv \in Seqs(TiesLeft, MaxLeft), rv \in Seqs(TiesRight, MaxRight),
       s \in TiesSettings, how \in JoinTypes :
        Start(Dataset(lv, {"Integer"}), Dataset(rv, {"Float"}),
              Scalars(s[1], s[2], how, 1))

\* a left date with two right dates at the same distance
DateTiesRight == {Some("2021-01-03"), Some("Jan 1 2021")}

InitDateTies ==
    \E lv \in Seqs(DateTimeLeft, MaxLeft), rv \in Seqs(DateTiesRight, MaxRight),
       how \in JoinTypes :
        Start(Dataset(lv, {"DateTime"}), Dataset(rv, {"DateTime"}),
              Scalars(50, FALSE, how, 1))

\* polygons of one point against polygons of two points, either way round
OnePoint == {Some(<<0, 0>>)}
TwoPoints == {Some(<<0, 0, 3, 0>>)}

InitGeoCounts ==
    \E sides \in {<<OnePoint, TwoPoints>>, <<TwoPoints, OnePoint>>},
       how \in JoinTypes :
        \E lv \in Seqs(sides[1], MaxLeft), rv \in Seqs(sides[2], MaxRight) :
            Start(Dataset(lv, {"BoundingPolygon"}),
                  Dataset(rv, {"BoundingPolygon"}),
                  Scalars(15000000, TRUE, how, 1))

\* right vectors with a NaN value
NaNLeft == {Vector(<<100, 50>>)}
NaNRight == {Vector(<<100, 108>>), Some(<<Some(100), Null>>)}

InitVectorNaN ==
    \E lv \in Seqs(NaNLeft, MaxLeft), rv \in Seqs(NaNRight, MaxRight),
       how \in JoinTypes :
        Start(Dataset(lv, {"FloatVector"}), Dataset(rv, {"FloatVector"}),
              Scalars(90, FALSE, how, 1))

\* a vector column with missing values: the task of such a row fails
FailingLeft == {Vector(<<100, 108>>), Null}
FailingRight == <<Vector(<<100, 108>>)>>

InitFailing ==
    \E lv \in Seqs(FailingLeft, MaxLeft), how \in JoinTypes :
        Start(Dataset(lv, {"FloatVector"}), Dataset(FailingRight, {"FloatVector"}),
              Scalars(100, FALSE, how, 1))

\* a left column of num_splits + 1 values: array_split gives the first
\* chunk the two rows a and b, every other chunk one row a
Long(a, b) == <<a, b>> \o [i \in 1..(num_splits - 1) |-> a]

InitLongNumeric ==
    \E a \in NumericLeft, b \in NumericLeft, rv \in Seqs(NumericRight, MaxRight),
       how \in {"left", "inner"} :
        Start(Dataset(Long(a, b), {"Integer"}), Dataset(rv, {"Float"}),
              Scalars(90, FALSE, how, 1))

InitLongString ==
    \E a \in StringLeft, b \in StringLeft, rv \in Seqs(StringRight, MaxRight),
       how \in {"left", "inner"} :
        Start(Dataset(Long(a, b), {"Text"}), Dataset(rv, {"Text"}),
              Scalars(80, FALSE, how, 1))

InitLongDateTime ==
    \E a \in DateTimeLeft, b \in DateTimeLeft, rv \in Seqs(DateTimeRight, MaxRight),
       how \in {"left", "inner"} :
        Start(Dataset(Long(a, b), {"DateTime"}), Dataset(rv, {"DateTime"}),
              Scalars(50, FALSE, how, 1))

\* a text column against a number column: no join type
InitUnsupported ==
    \E lv \in Seqs({Some("Alice")}, MaxLeft), rv \in Seqs({Some(100)}, MaxRight),
       how \in JoinTypes :
        Start(Dataset(lv, {"Text"}), Dataset(rv, {"Integer"}),
              Scalars(100, FALSE, how, 1))

\* declared type sets of a text column, left and right: Text against
\* CategoricalData, two shared supported types, a shared type beside an
\* unsupported one, and no supported type on the right
TextTypes ==
    {<<{"Text"}, {"CategoricalData"}>>,
     <<{"Text", "Integer"}, {"Text", "Integer"}>>,
     <<{"CategoricalData", "Attribute"}, {"CategoricalData"}>>,
     <<{"Boolean"}, {"Attribute"}>>}

InitTextTypes ==
    \E lv \in Seqs({Some("Alice")}, MaxLeft), rv \in Seqs({Some("Alice")}, MaxRight),
       t \in TextTypes, how \in {"left", "inner"} :
        Start(Dataset(lv, t[1]), Dataset(rv, t[2]), Scalars(100, FALSE, how, 1))

\* declared type sets of a number column: a number type and a text type on
\* either side with none shared, and a shared number type
NumberTypes ==
    {<<{"Integer", "Text"}, {"Float", "CategoricalData"}>>,
     <<{"Integer", "Attribute"}, {"Integer"}>>}

InitNumberTypes ==
    \E lv \in Seqs({Some(100)}, MaxLeft), rv \in Seqs({Some(100)}, MaxRight),
       t \in NumberTypes, how \in {"left", "inner"} :
        Start(Dataset(lv, t[1]), Dataset(rv, t[2]), Scalars(100, FALSE, how, 1))

\* the shapes of the join specification, over two number columns a and b
ShapeLeft ==
    [df |-> DataFrame(<<"d3mIndex", "a", "b">>,
                      <<<<Some(0), Some(100), Some(5)>>,
                        <<Some(1), Some(108), Some(5)>>>>),
     types |-> ("d3mIndex" :> {"Integer", "PrimaryKey"})
               @@ ("a" :> {"Integer"}) @@ ("b" :> {"Integer"})]
ShapeRight ==
    [df |-> DataFrame(<<"a", "b", "w">>,
                      <<<<Some(108), Some(5), Some(11)>>>>),
     types |-> ("a" :> {"Integer"}) @@ ("b" :> {"Integer"})
               @@ ("w" :> {"Integer"})]
ShapeColumns == {Str("a"), StrList(<<"a">>), StrList(<<"a", "b">>)}
ShapeAccuracy ==
    {Float(90), Float(150), FloatList(<<90>>), FloatList(<<150>>),
     FloatList(<<90, 90>>), FloatList(<<90, 150>>)}
ShapeAbsolute ==
    {Bool(FALSE), Bool(TRUE), BoolList(<<FALSE>>), BoolList(<<TRUE>>),
     BoolList(<<FALSE, FALSE>>), BoolList(<<FALSE, TRUE>>)}

InitShapes ==
    \E lc \in ShapeColumns, rc \in ShapeColumns, a \in ShapeAccuracy,
       b \in ShapeAbsolute :
        Start(ShapeLeft, ShapeRight,
              [n_jobs |-> 1, left_col |-> lc, right_col |-> rc, accuracy |-> a,
               join_type |-> "left", absolute_accuracy |-> b])

Init ==
    \/ InitNumeric
    \/ InitPool
    \/ InitString
    \/ InitGeo
    \/ InitVector
    \/ InitDateTime
    \/ InitGeoCounts
    \/ InitVectorNaN
    \/ InitTies
    \/ InitDateTies
    \/ InitFailing
    \/ InitLongNumeric
    \/ InitLongString
    \/ InitLongDateTime
    \/ InitUnsupported
    \/ InitTextTypes
    \/ InitNumberTypes
    \/ InitShapes

Spec == Init /\ [][Next]_vars

(***************************************************************************)
(* Properties of produce.                                                  *)
(***************************************************************************)
\* _produce run once over the whole left table
single_chunk ==
    _produce(inputs.left.df, inputs.left.df, inputs.right.df, config,
             hyperparams.join_type)

\* C1: partition invariance. Whenever produce returns, its result is row for
\* row, in values and in order, the result of _produce run once over the
\* unpartitioned left table, in every join mode and with every pool size.
C1_PartitionInvariance ==
    pc = "done" => single_chunk.error = "" /\ joined = single_chunk.joined

\* C2: empty input. With a left table of zero rows a join specification that
\* passes validation raises no error and the result has zero rows.
C2_EmptyInput ==
    Len(inputs.left.df.rows) = 0 =>
        /\ pc = "error" => error.at \in {"validate", "classify"}
        /\ pc = "done" => Len(joined.rows) = 0

\* a table joined with itself on one column, accuracy 1.0, inner mode
Identity ==
    /\ inputs.left.types = inputs.right.types
    /\ inputs.left.df = inputs.right.df
    /\ hyperparams.left_col = hyperparams.right_col
    /\ hyperparams.left_col.kind = "str"
    /\ hyperparams.accuracy = Float(100)
    /\ hyperparams.join_type = "inner"

\* the rows of the left table holding the join value of row r
same_value(r) ==
    LET cells == Column(inputs.left.df, hyperparams.left_col.val)
    IN {q \in 1..Len(cells) : cells[q] = cells[r]}

RECURSIVE Sum(_, _)
Sum(f, n) == IF n = 0 THEN 0 ELSE f[n] + Sum(f, n - 1)

C4_CallerTablesUnchanged ==
    /\ frames["left"] = inputs.left.df
    /\ frames["right"] = inputs.right.df
    /\ \A index \in DOMAIN tasks :
        LET st == key_projection(inputs.left.df,
                      DataFrame(inputs.left.df.columns,
                                left_df_split[index + 1]),
                      inputs.right.df, config)
        IN /\ frames[tasks[index].left_df] = st.left_df
           /\ frames[tasks[index].right_df] = st.right_df

\* two chunks were joined, each task renamed its right column, and the
\* caller's right table still has it
C4_Witness ==
    /\ pc = "done"
    /\ Len(inputs.left.df.rows) = 2
    /\ Len(inputs.right.df.rows) > 0
    /\ config.join_types = <<{"Float"}>>
    /\ ~IsNull(joined_data[1][1].output)
    /\ ~IsNull(joined_data[2][1].output)
    /\ frames["right"].columns = <<"d3mIndex", "v", "w">>

\* what _produce returns for chunk i (from 1)
chunk_output(i) ==
    _produce(inputs.left.df,
             DataFrame(inputs.left.df.columns, left_df_split[i]),
             inputs.right.df, config, hyperparams.join_type).joined

\* C5: when produce returns, the rows of the result are the outputs of the
\* chunks in the order of the chunk indices, the output of chunk i after
\* those of the chunks before it, whatever the pool size and the order in
\* which the tasks returned.
C5_ChunkOrder ==
    pc = "done" =>
        joined.rows = Flatten([i \in 1..num_splits |->
                          IF Len(left_df_split[i]) = 0 THEN <<>>
                          ELSE chunk_output(i).rows])

\* two workers, two chunks of different output
C5_Witness ==
    /\ pc = "done"
    /\ hyperparams.n_jobs = 2
    /\ Len(left_df_split[1]) > 0
    /\ Len(left_df_split[2]) > 0
    /\ Len(chunk_output(1).rows) > 0
    /\ Len(chunk_output(2).rows) > 0
    /\ chunk_output(1).rows # chunk_output(2).rows

\* C6: no error of the join specification (a column pair of no supported
\* category, Geo matching without the absolute flag) is raised by a chunk
\* task: such errors are raised before the first task starts.
C6_SpecificationErrorsBeforeTasks ==
    ~(/\ pc = "error"
      /\ error.at = "task"
      /\ error.type \in {"InvalidArgumentValueError",
                         "InvalidArgumentTypeError"})

\* the number of join columns a column hyperparameter names
column_count(col) == IF col.kind = "list" THEN Len(col.items) ELSE 1

\* left_col and right_col of different lengths, or accuracy or
\* absolute_accuracy of another shape than the columns
ShapeMismatch ==
    LET hp == hyperparams
        n == column_count(hp.left_col)
        differs(v) == IF v.kind = "list" THEN Len(v.items) # n
                      ELSE hp.left_col.kind = "list"
    IN \/ column_count(hp.left_col) # column_count(hp.right_col)
       \/ differs(hp.accuracy)
       \/ differs(hp.absolute_accuracy)

ConfigurationErrors ==
    {"InvalidArgumentValueError", "InvalidArgumentTypeError"}

\* C7: a join specification whose column lists differ in length, or whose
\* accuracy or absolute_accuracy does not have the shape of the columns, is
\* rejected by validation with a configuration error.
C7_ShapeMismatchRejected ==
    (ShapeMismatch /\ pc # "validate") =>
        /\ pc = "error"
        /\ error.at = "validate"
        /\ error.type \in ConfigurationErrors

\* an accuracy outside (0, 1] for a column whose absolute flag is false
OutOfRangeRelative ==
    LET a == hyperparams.accuracy
        b == hyperparams.absolute_accuracy
    IN IF a.kind = "float" /\ b.kind = "bool"
       THEN OutOfRange(a.val) /\ ~b.val
       ELSE /\ a.kind = "list"
            /\ b.kind = "list"
            /\ Len(a.items) = Len(b.items)
            /\ \E i \in 1..Len(a.items) :
                OutOfRange(a.items[i].val) /\ ~b.items[i].val

\* an accuracy outside (0, 1], every one for a column whose flag is true
OutOfRangeAbsolute ==
    LET a == hyperparams.accuracy
        b == hyperparams.absolute_accuracy
    IN IF a.kind = "float" /\ b.kind = "bool"
       THEN OutOfRange(a.val) /\ b.val
       ELSE /\ a.kind = "list"
            /\ b.kind = "list"
            /\ Len(a.items) = Len(b.items)
            /\ \E i \in 1..Len(a.items) : OutOfRange(a.items[i].val)
            /\ \A i \in 1..Len(a.items) :
                OutOfRange(a.items[i].val) => b.items[i].val

\* C8: an accuracy outside (0, 1] with a false absolute flag is rejected by
\* validation with InvalidArgumentValueError, given as a scalar or in a
\* sequence; with a true absolute flag it raises no such error.
C8_AccuracyRange ==
    /\ (OutOfRangeRelative /\ pc # "validate") =>
            /\ pc = "error"
            /\ error = Raise("InvalidArgumentValueError", "validate")
    /\ (OutOfRangeAbsolute /\ pc = "error") =>
            error # Raise("InvalidArgumentValueError", "validate")

\* the rows of table df that are left row r of a left table of n columns
output_rows(df, left_row, n) ==
    SelectSeq(df.rows, LAMBDA row : \A c \in 1..n : row[c] = left_row[c])

\* task index returns: a row of its chunk whose synthetic key is null is in
\* no output row in inner mode, and in left and outer mode in one output row
\* whose right-side columns are all null
null_key_unjoined(index) ==
    LET t == tasks[index]
        left_df == frames[t.left_df]
        out == joined_data'[index + 1][1].output[1]
        n == Len(frames["left"].columns)
        key_null(r) ==
            \E k \in 1..Len(t.new_left_cols) :
                IsNull(left_df.rows[r][ColPos(left_df, t.new_left_cols[k])])
        rows_of(r) == output_rows(out, left_df.rows[r], n)
    IN \A r \in 1..Len(left_df.rows) :
        key_null(r) =>
            CASE hyperparams.join_type = "inner" -> Len(rows_of(r)) = 0
              [] hyperparams.join_type \in {"left", "outer"} ->
                    /\ Len(rows_of(r)) = 1
                    /\ \A c \in (n + 1)..Len(out.columns) :
                        IsNull(rows_of(r)[1][c])
              [] OTHER -> TRUE

\* C9: a left row with no candidate within tolerance has a null synthetic key
\* and is joined to no right row, a right row of null key included.
C9_NullKeyNeverJoins ==
    [][\A index \in DOMAIN tasks :
        (index \notin DOMAIN tasks' /\ pc' = "dispatch")
            => null_key_unjoined(index)]_vars

\* the relative accuracies the number columns are joined with
RelativeAccuracies ==
    {s[1] : s \in {t \in NumericSettings : ~t[2] /\ ~OutOfRange(t[1])}}

\* the number of left rows _numeric_fuzzy_match gives a match, at relative
\* accuracy a
matched_rows(a) ==
    LET cells == Column(inputs.left.df, "v")
        choices == unique(Column(inputs.right.df, "v"))
    IN Cardinality({r \in 1..Len(cells) :
            ~IsNull(_numeric_fuzzy_match(cells[r], choices, a, FALSE))})

\* C10: numeric tolerance monotonicity. Number columns of any sign joined in
\* relative mode: the left rows matched at an accuracy are no more than the
\* left rows matched at any smaller accuracy.
C10_NumericMonotonicity ==
    (/\ pc = "done"
     /\ config.join_types = <<{"Float"}>>
     /\ hyperparams.left_col = Str("v")
     /\ hyperparams.absolute_accuracy = Bool(FALSE)
     /\ hyperparams.join_type = "inner"
     /\ \A j \in 1..Len(inputs.right.df.rows) :
            ~IsNull(Column(inputs.right.df, "v")[j])) =>
        \A a1 \in RelativeAccuracies :
            a1 <= hyperparams.accuracy.val =>
                Cardinality({joined.rows[k][1] : k \in 1..Len(joined.rows)})
                    <= matched_rows(a1)

\* the strategy of a semantic type
category(t) ==
    IF t \in _STRING_JOIN_TYPES THEN "String"
    ELSE IF t \in _NUMERIC_JOIN_TYPES THEN "Numeric"
    ELSE IF t \in _GEO_JOIN_TYPES THEN "Geo"
    ELSE IF t \in _VECTOR_JOIN_TYPES THEN "Vector"
    ELSE "DateTime"

\* the branch _produce takes for join types of the categories cs: the first
\* of String, Numeric, Geo, Vector, DateTime
selected(cs) ==
    IF "String" \in cs THEN "String"
    ELSE IF "Numeric" \in cs THEN "Numeric"
    ELSE IF "Geo" \in cs THEN "Geo"
    ELSE IF "Vector" \in cs THEN "Vector"
    ELSE "DateTime"

\* the join is over the one column pair v of the given category
JoinOver(types) ==
    /\ Len(config.join_types) = 1
    /\ config.join_types[1] \cap types # {}
    /\ \E t \in types :
        category(t) = selected({category(u) : u \in config.join_types[1]})
    /\ hyperparams.left_col = Str("v")

\* the row of the right table an output row carries (the tables of the
\* join give row j the value 10 + j in column w), 0 when it carries none
right_row_of(row) ==
    LET c == row[ColPos(joined, "w_right")]
    IN IF IsNull(c) THEN 0 ELSE c[1] - 10

\* the output rows that pair a left row with a right row
joined_pairs ==
    {k \in 1..Len(joined.rows) :
        /\ ~IsNull(joined.rows[k][ColPos(joined, "d3mIndex")])
        /\ right_row_of(joined.rows[k]) > 0}

\* the polygon of the right row an output row carries
right_polygon(row) ==
    Column(inputs.right.df, "v")[right_row_of(row)][1]

\* C11: Geo bound. Every left row and right row the Geo strategy joins have
\* every point of the left polygon within the absolute tolerance (metres) of
\* the right polygon's point of the same position.
C11_GeoBound ==
    (pc = "done" /\ JoinOver(_GEO_JOIN_TYPES)) =>
        \A k \in joined_pairs :
            LET left_points == topoints(joined.rows[k][ColPos(joined, "v")][1])
                right_points == topoints(right_polygon(joined.rows[k]))
            IN \A i \in 1..Len(left_points) :
                haversine(left_points[i], right_points[i]) * 100
                    <= hyperparams.accuracy.val

\* a left polygon joined to a right polygon that is not the same polygon
C11_Witness ==
    /\ pc = "done"
    /\ JoinOver(_GEO_JOIN_TYPES)
    /\ \E k \in joined_pairs :
        joined.rows[k][ColPos(joined, "v")][1] # right_polygon(joined.rows[k])

\* max minus min of the timestamps of column v of a table, in days
column_range(df) ==
    LET t == Range(parsed(df, "v"))
    IN SetMax(t) - SetMin(t)

\* C12: DateTime bound. Every left row and right row the DateTime strategy
\* joins have timestamps that differ by at most (1 - accuracy) times the
\* smaller of the two ranges, the range of a side being max minus min of the
\* timestamps of its whole column.
C12_DateTimeBound ==
    (pc = "done" /\ JoinOver(_DATETIME_JOIN_TYPES)) =>
        \A k \in joined_pairs :
            LET l == parse(joined.rows[k][ColPos(joined, "v")][1])
                r == parse(Column(inputs.right.df, "v")
                               [right_row_of(joined.rows[k])][1])
            IN Abs(l - r) * 100
                <= (100 - hyperparams.accuracy.val)
                    * Min(column_range(inputs.left.df),
                          column_range(inputs.right.df))

\* two rows a day apart are joined
C12_Witness ==
    /\ pc = "done"
    /\ JoinOver(_DATETIME_JOIN_TYPES)
    /\ \E k \in joined_pairs :
        parse(joined.rows[k][ColPos(joined, "v")][1])
            # parse(Column(inputs.right.df, "v")
                        [right_row_of(joined.rows[k])][1])

\* C13: a chunk task that raises is fatal for the whole join: produce raises,
\* no merged table is returned, and the outputs of the chunks that succeeded
\* are not surfaced.
C13_ChunkFailureFatal ==
    error.at = "task" => pc = "error" /\ joined = EmptyFrame

\* the task of chunk 1 raised after the task of chunk 0 had returned its rows
C13_Witness ==
    /\ pc = "error"
    /\ error.at = "task"
    /\ ~IsNull(joined_data[1])
    /\ ~IsNull(joined_data[1][1].output)
    /\ Len(joined_data[1][1].output[1].rows) > 0
    /\ joined = EmptyFrame

\* the position of value c in sequence s
position(s, c) == CHOOSE i \in 1..Len(s) : s[i] = c

\* the synthetic key column of the left working table of task index
left_key(index) ==
    Column(frames[tasks[index].left_df], tasks[index].new_left_cols[1])

\* the key the Numeric strategy is to give left value v: the distinct right
\* value within the tolerance that is nearest, the last of the nearest ones
\* in the order of the distinct values; c is a cell
is_numeric_key(v, c) ==
    LET distinct == unique(Column(inputs.right.df, "v"))
        tolerance == IF hyperparams.absolute_accuracy.val
                     THEN hyperparams.accuracy.val
                     ELSE v * (100 - hyperparams.accuracy.val)
        candidates == {i \in 1..Len(distinct) :
                        /\ ~IsNull(distinct[i])
                        /\ Abs(v - distinct[i][1]) * 100 <= tolerance}
    IN IF candidates = {} THEN IsNull(c)
       ELSE /\ ~IsNull(c)
            /\ \E i \in candidates :
                /\ distinct[i] = c
                /\ \A j \in candidates :
                    \/ Abs(v - c[1]) < Abs(v - distinct[j][1])
                    \/ Abs(v - c[1]) = Abs(v - distinct[j][1]) /\ j <= i

\* C14: Numeric match. The synthetic key of a left value v is the distinct
\* right value c with |v - c| <= tolerance (accuracy when absolute, else
\* v x (1 - accuracy)) that minimises |v - c|, null when there is none; of
\* several nearest values the one last in the order of the distinct values of
\* the right column is the key.
C14_NumericMatch ==
    JoinOver(_NUMERIC_JOIN_TYPES) =>
        \A index \in DOMAIN tasks :
            LET values == Column(frames[tasks[index].left_df], "v")
            IN \A r \in 1..Len(values) :
                is_numeric_key(values[r][1], left_key(index)[r])

\* 108 and 92 are both 8 away from 100: the key is 92, the later one
C14_Witness ==
    /\ JoinOver(_NUMERIC_JOIN_TYPES)
    /\ Column(inputs.right.df, "v") = <<Some(108), Some(92)>>
    /\ \E index \in DOMAIN tasks :
        /\ Column(frames[tasks[index].left_df], "v") = <<Some(100)>>
        /\ left_key(index) = <<Some(92)>>

\* the key the DateTime strategy is to give left timestamp t: the distinct
\* right timestamp within the tolerance that is nearest, the first of the
\* nearest ones in the ascending order numpy.unique lists them in; c is a cell
is_datetime_key(t, c) ==
    LET distinct == sorted(Range(parsed(inputs.right.df, "v")))
        tolerance == (100 - hyperparams.accuracy.val)
                        * Min(column_range(inputs.left.df),
                              column_range(inputs.right.df))
        candidates == {i \in 1..Len(distinct) :
                        Abs(t - distinct[i]) * 100 <= tolerance}
    IN IF candidates = {} THEN IsNull(c)
       ELSE /\ ~IsNull(c)
            /\ \E i \in candidates :
                /\ distinct[i] = c[1]
                /\ \A j \in candidates :
                    \/ Abs(t - c[1]) < Abs(t - distinct[j])
                    \/ Abs(t - c[1]) = Abs(t - distinct[j]) /\ i <= j

\* C15: DateTime match. The synthetic key of a left timestamp is the distinct
\* right timestamp that minimises the absolute difference among those within
\* the tolerance, NaT when there is none; of several nearest timestamps the
\* first one encountered is kept.
C15_DateTimeMatch ==
    JoinOver(_DATETIME_JOIN_TYPES) =>
        \A index \in DOMAIN tasks :
            LET values == parsed(frames[tasks[index].left_df], "v")
            IN \A r \in 1..Len(values) :
                is_datetime_key(values[r], left_key(index)[r])

\* 3 and 1 January are both a day from 2 January: the key is 1 January,
\* encountered first though second in the right table
C15_Witness ==
    /\ JoinOver(_DATETIME_JOIN_TYPES)
    /\ Column(inputs.right.df, "v") = <<Some("2021-01-03"), Some("Jan 1 2021")>>
    /\ \E index \in DOMAIN tasks :
        /\ Column(frames[tasks[index].left_df], "v") = <<Some("2021-01-02")>>
        /\ left_key(index) = <<Some(0)>>

\* the right rows the Geo strategy is to leave for a left polygon: those
\* with every point of the positions both polygons have within the tolerance
geo_candidates(left_polygon) ==
    LET left_points == topoints(left_polygon)
        right_cells == Column(inputs.right.df, "v")
        close(j) ==
            LET right_points == topoints(right_cells[j][1])
            IN \A i \in 1..Min(Len(left_points), Len(right_points)) :
                haversine(left_points[i], right_points[i]) * 100
                    < hyperparams.accuracy.val
    IN SelectIdx([j \in 1..Len(right_cells) |-> close(j)],
                 Len(right_cells), 1)

\* the cells of the synthetic key columns of row r of task index
key_cells(index, r) ==
    LET t == tasks[index]
        df == frames[t.left_df]
    IN [i \in 1..Len(t.new_left_cols) |->
           df.rows[r][ColPos(df, t.new_left_cols[i])]]

\* C16: Geo match. The candidates of a left row are the right rows within
\* the tolerance at every position i below min(leftPointCount,
\* rightPointCount); the synthetic key is the first of them in right-row
\* order, null when there is none, for polygons of equal and of different
\* point counts, which the join accepts alike.
C16_GeoMatch ==
    (/\ JoinOver(_GEO_JOIN_TYPES)
     /\ hyperparams.absolute_accuracy.val
     /\ Len(inputs.left.df.rows) > 0
     /\ Len(inputs.right.df.rows) > 0) =>
        /\ ~(/\ pc = "error"
             /\ error.at = "task"
             /\ error.type \in {"IndexError", "ValueError"})
        /\ \A index \in DOMAIN tasks :
            LET polygons == Column(frames[tasks[index].left_df], "v")
            IN \A r \in 1..Len(polygons) :
                LET candidates == geo_candidates(polygons[r][1])
                    first == topoints(Column(inputs.right.df, "v")
                                          [candidates[1]][1])
                    key == key_cells(index, r)
                IN IF Len(candidates) = 0
                   THEN \A i \in 1..Len(key) : IsNull(key[i])
                   ELSE \A i \in 1..Min(Len(key), Len(first)) :
                            key[i] = Some(first[i])

\* the Numeric match of value v against the values choices, all of them in
\* their order: the nearest within the tolerance, the last of the nearest; c
\* is a cell
is_numeric_match(v, c, choices) ==
    LET tolerance == IF hyperparams.absolute_accuracy.val
                     THEN hyperparams.accuracy.val
                     ELSE v * (100 - hyperparams.accuracy.val)
        candidates == {i \in 1..Len(choices) :
                        /\ ~IsNull(choices[i])
                        /\ Abs(v - choices[i][1]) * 100 <= tolerance}
    IN IF candidates = {} THEN IsNull(c)
       ELSE /\ ~IsNull(c)
            /\ \E i \in candidates :
                /\ choices[i] = c
                /\ \A j \in candidates :
                    \/ Abs(v - c[1]) < Abs(v - choices[j][1])
                    \/ Abs(v - c[1]) = Abs(v - choices[j][1]) /\ j <= i

\* task index returns: the key of every row of its chunk is, per dimension,
\* the Numeric match against the right values of the dimension, and the row
\* is in the output with right row j exactly when every dimension of its key
\* is non-null and is j's value of the dimension
vector_joined(index) ==
    LET left_df == frames[tasks[index].left_df]
        out == joined_data'[index + 1][1].output[1]
        right_values == value_columns(inputs.right.df, "v")
        n == Len(frames["left"].columns)
        pos == Len(out.columns)
    IN \A r \in 1..Len(left_df.rows) :
        LET vector == Column(left_df, "v")[r][1]
            key == key_cells(index, r)
            rows_of == output_rows(out, left_df.rows[r], n)
            paired(j) == \E k \in 1..Len(rows_of) : rows_of[k][pos] = Some(10 + j)
        IN /\ \A d \in 1..Len(key) :
                ~IsNull(vector[d]) =>
                    is_numeric_match(vector[d][1], key[d], right_values[d])
           /\ \A j \in 1..Len(inputs.right.df.rows) :
                paired(j) <=>
                    \A d \in 1..Len(key) :
                        ~IsNull(key[d]) /\ key[d] = right_values[d][j]

\* C17: Vector match. The key of a left row is, per dimension, the Numeric
\* match of its value against all right values of the dimension, and the row
\* is joined to a right row if and only if every dimension of the key is
\* non-null and equals the right row's value of the dimension.
C17_VectorMatch ==
    [][\A index \in DOMAIN tasks :
        (/\ JoinOver(_VECTOR_JOIN_TYPES)
         /\ index \notin DOMAIN tasks'
         /\ pc' = "dispatch")
            => vector_joined(index)]_vars

\* the key the String strategy is to give left value v: v itself when the
\* accuracy is 1.0; below 1.0 the first of the distinct right values with
\* the maximal score if that score reaches accuracy x 100, else null; c is
\* a cell
is_string_key(v, c) ==
    LET distinct == unique(Column(inputs.right.df, "v"))
        score(i) == WRatio(v, distinct[i][1])
        best == {i \in 1..Len(distinct) :
                    \A j \in 1..Len(distinct) : score(j) <= score(i)}
        first == CHOOSE i \in best : \A j \in best : i <= j
    IN IF hyperparams.accuracy.val >= 100 THEN c = Some(v)
       ELSE IF best # {} /\ score(first) >= hyperparams.accuracy.val * 100
       THEN c = distinct[first]
       ELSE IsNull(c)

\* task index is running with a String key for every row of its chunk
string_keyed(index) ==
    /\ index \in DOMAIN tasks
    /\ LET values == Column(frames[tasks[index].left_df], "v")
       IN \A r \in 1..Len(values) :
            is_string_key(values[r][1], left_key(index)[r])

\* C18: String match. When a task takes a chunk with rows under the String
\* strategy, every row gets a key: its raw left value when accuracy is 1.0;
\* when accuracy < 1 the distinct right value with the maximal similarity
\* score if that score >= accuracy x 100 and null otherwise, the same key
\* for equal left values.
C18_StringMatch ==
    [][\A index \in 0..(num_splits - 1) :
        (/\ JoinOver(_STRING_JOIN_TYPES)
         /\ pc = "dispatch"
         /\ next_job = index
         /\ next_job' = index + 1
         /\ Len(left_df_split[index + 1]) > 0)
            => string_keyed(index)']_vars

\* the categories the declared types of the columns v allow: those of the
\* supported types both sides declare, else Numeric if both sides declare a
\* number type, else String if both declare a text type, else none
allowed ==
    LET left_types == inputs.left.types["v"]
        right_types == inputs.right.types["v"]
        shared == left_types \cap right_types \cap _SUPPORTED_TYPES
    IN IF shared # {} THEN {category(t) : t \in shared}
       ELSE IF left_types \cap _NUMERIC_JOIN_TYPES # {}
               /\ right_types \cap _NUMERIC_JOIN_TYPES # {}
            THEN {"Numeric"}
       ELSE IF left_types \cap _STRING_JOIN_TYPES # {}
               /\ right_types \cap _STRING_JOIN_TYPES # {}
            THEN {"String"}
       ELSE {}

\* the strategy that made the key column of task index; the key columns of
\* Geo and of Vector have the same names
category_of(index) ==
    LET name == tasks[index].new_left_cols[1]
    IN IF name = "lefty_string0" THEN "String"
       ELSE IF name = "lefty_numeric0" THEN "Numeric"
       ELSE IF name = "lefty_datetime0" THEN "DateTime"
       ELSE IF config.join_types[1] \cap _GEO_JOIN_TYPES # {} THEN "Geo"
       ELSE "Vector"

\* the columns v of both tables are joined and the specification is valid
JoinOnV ==
    /\ hyperparams.left_col = Str("v")
    /\ hyperparams.right_col = Str("v")
    /\ error.at # "validate"

\* C19: Type classification. The strategy a task applies is one of the
\* categories of the supported types both columns declare when there is
\* one, else Numeric if both declare Integer or Float, else String if both
\* declare Text, CategoricalData or Boolean, and it is determined by the two
\* type sets; when none of these applies the join ends with the
\* unsupported-type error; classification leaves both inputs as given.
C19_TypeClassification ==
    [][JoinOnV' =>
        /\ pc = "classify" => inputs' = inputs /\ frames' = frames
        /\ \A index \in DOMAIN tasks' :
            /\ category_of(index)' \in allowed
            /\ category_of(index)' = selected(allowed)
        /\ (allowed = {} /\ pc' \in {"done", "error"})
                => error'.type = "InvalidArgumentValueError"]_vars

\* the names with the suffix on those that are among the others
suffixed(names, others, suffix) ==
    [i \in 1..Len(names) |->
        IF Contains(others, names[i]) THEN names[i] \o suffix ELSE names[i]]

\* the columns of the caller's left table and those of the caller's right
\* table but its join columns and its row identifier, a name of both sides
\* with the suffix of its side
output_columns ==
    LET left_names == inputs.left.df.columns
        consumed == {config.right_col.items[i].val :
                        i \in 1..Len(config.left_col.items)} \cup {"d3mIndex"}
        right_names == SelectSeq(inputs.right.df.columns,
                                 LAMBDA c : c \notin consumed)
    IN Range(suffixed(left_names, right_names, "_left"))
       \cup Range(suffixed(right_names, left_names, "_right"))

\* the table out has no synthetic key column of task index and not the right
\* table's row identifier: its column set is the one claimed
as_claimed(out, index) ==
    /\ Range(out.columns) = output_columns
    /\ Range(out.columns) \cap Range(tasks[index].new_left_cols
                                      \o tasks[index].new_right_cols) = {}

\* C20: Output columns. A task that merges its working tables returns a
\* table without the synthetic key columns and without the right table's
\* row identifier, whose column set is the left columns united with the right
\* columns without the right join columns and the right row identifier (a
\* name of both sides carries the suffix of its side), whatever the strategy
\* and the join mode; the result of the join has the same columns.
C20_OutputColumns ==
    [][/\ \A index \in DOMAIN tasks :
            index \notin DOMAIN tasks' =>
                /\ pc' = "dispatch"
                /\ as_claimed(joined_data'[index + 1][1].output[1], index)
       /\ pc' = "done" => Range(joined'.columns) = output_columns]_vars

\* _produce run over left row r alone, with the whole left table as
\* left_df_full and the whole right table
alone(r) ==
    _produce(inputs.left.df,
             DataFrame(inputs.left.df.columns, <<inputs.left.df.rows[r]>>),
             inputs.right.df, config, hyperparams.join_type)

\* the position in the left table of the left row that row k of the result
\* carries (the left tables number their rows from 0 in d3mIndex)
left_position(k) == joined.rows[k][ColPos(joined, "d3mIndex")][1] + 1

\* C21: chunk independence in left and inner mode. The result lists the left
\* rows in the order of the left table, the joined rows of one left row
\* together, and the rows it joins to a left row are those _produce gives
\* for that row alone from the whole right table (and, for DateTime, the
\* range of the whole left column): neither the chunk of the row nor the
\* rows sharing it change them.
C21_ChunkIndependence ==
    (pc = "done" /\ hyperparams.join_type \in {"left", "inner"}) =>
        /\ \A k \in 1..(Len(joined.rows) - 1) :
                left_position(k) <= left_position(k + 1)
        /\ \A r \in 1..Len(inputs.left.df.rows) :
            /\ alone(r).error = ""
            /\ Range(output_rows(joined, inputs.left.df.rows[r],
                                  Len(inputs.left.df.columns)))
                    = Range(alone(r).joined.rows)

\* a left join over DateTime columns of num_splits + 1 left rows ended: the
\* first chunk held two rows, the first joined to right row 1 and the
\* second, over a day and a half from every right value, to none
C21_Witness ==
    /\ pc = "done"
    /\ JoinOver(_DATETIME_JOIN_TYPES)
    /\ hyperparams.join_type = "left"
    /\ Len(left_df_split[1]) = 2
    /\ Len(joined.rows) = num_splits + 1
    /\ right_row_of(joined.rows[1]) = 1
    /\ right_row_of(joined.rows[2]) = 0

====
